---------------------------- MODULE Spec2Model ----------------------------
(***************************************************************************)
(* A model of starhash.core.StarHash (src/src/starhash/core.py): the       *)
(* constructor, coordinate_to_words (encode) and words_to_coordinate       *)
(* (decode).                                                               *)
(*                                                                         *)
(* Decimal strings are sequences of digits 0..9, words are natural         *)
(* numbers (UnknownWord is one that no word list holds), an identifier is  *)
(* the sequence of words that split(WORD_SEPARATOR) yields, and a          *)
(* coordinate is a pair (cell, off): the HEALPix cell it lies in and where *)
(* in the cell it lies (off = 0 is the cell's centre, which pix2ang        *)
(* returns).                                                               *)
(*                                                                         *)
(* healpy and ff3 are libraries the code calls.  healpy is modelled by     *)
(* npix = 12 * nside^2 and by the cell a coordinate lies in.  ff3 is       *)
(* modelled as a keyed length-preserving bijection on the decimal strings  *)
(* of each length (an affine map modulo 10^n, multiplier chosen by the     *)
(* key, offset by the tweak) that rejects a string shorter than minLen or  *)
(* longer than maxLen when encrypt or decrypt is called; the constructor   *)
(* FF3Cipher(key, tweak) is not given the padding length at all            *)
(* (core.py line 90).                                                      *)
(***************************************************************************)
EXTENDS Integers, Sequences, FiniteSets, TLC

VARIABLES
    pc,             \* "new": not constructed; "failed": __init__ raised; "ready": the
                    \* instance is constructed and idle; "called": a call on it has ended
    self,           \* the fields of the StarHash instance
    op,             \* the call that ended: "init" (a construction that raised),
                    \* "encode", "decode"; "none" when the instance is idle
    arg,            \* its argument
    err,            \* the exception it raised, "none" when it returned
    ret,            \* what it returned
    idx_encrypted,  \* the local idx_encrypted of the last call (-1: never assigned)
    cipher_arg,     \* the string the last call handed to the cipher (<<>>: none)
    pix_arg         \* the index the last call handed to pix2ang (-1: none)

vars == <<pc, self, op, arg, err, ret, idx_encrypted, cipher_arg, pix_arg>>

-----------------------------------------------------------------------------
(* Bounds of the model. *)

MaxNside == 3      \* healpix_nside ranges over 1..MaxNside
MaxK == 3          \* k_words ranges over 0..MaxK
MaxWords == 3      \* identifiers handed to decode hold 1..MaxWords words
MaxVocab == 12     \* the longest word list
MaxE == 1100       \* the largest integer an identifier handed to decode spells
\* ff3 derives minLen = 6 for radix 10 (a domain of at least 10^6 strings).
\* The model scales it down so that grids below the limit (nside 1 and 2,
\* two digits) and a grid above it (nside 3, three digits) are both within
\* MaxNside.
minLen == 3
\* ff3: maxLen = 2 * floor(96 / log2(10)).
maxLen == 56

VocabSizes == {0, 3, 6, 10, MaxVocab}
Keys == {1, 3, 7}     \* the key selects the multiplier of the permutation
Tweaks == {7}        \* the tweak its offset
Offsets == {0, 1}    \* where in its cell a coordinate lies
UnknownWord == MaxVocab + 1   \* a word that no word list holds

-----------------------------------------------------------------------------
(* Python built-ins the code uses. *)

RECURSIVE pow(_, _)
pow(b, e) == IF e = 0 THEN 1 ELSE b * pow(b, e - 1)

\* str(n) of an int n >= 0: its decimal digits, most significant first.
RECURSIVE str(_)
str(n) == IF n < 10 THEN <<n>> ELSE Append(str(n \div 10), n % 10)

\* s.zfill(width): zeros on the left up to width; a longer s is returned as is.
zfill(s, width) ==
    IF Len(s) >= width THEN s ELSE [i \in 1..(width - Len(s)) |-> 0] \o s

\* int(s) of a digit string.
RECURSIVE int(_)
int(s) == IF Len(s) = 0 THEN 0 ELSE 10 * int(SubSeq(s, 1, Len(s) - 1)) + s[Len(s)]

\* list.index(w): the 0-based position of the first occurrence, -1 standing
\* for the ValueError that list.index raises when w is absent.
index(wordlist, w) ==
    IF \E i \in 1..Len(wordlist) : wordlist[i] = w
    THEN (CHOOSE i \in 1..Len(wordlist) :
              wordlist[i] = w /\ \A j \in 1..(i - 1) : wordlist[j] # w) - 1
    ELSE -1

-----------------------------------------------------------------------------
(* healpy *)

nside2npix(nside) == 12 * nside * nside

\* ang2pix(nside, ra, dec, lonlat=True): the cell the coordinate lies in.
ang2pix(nside, coord) == coord.cell

\* pix2ang(nside, idx, lonlat=True): the centre of cell idx.  For an index
\* outside the grid healpy either raises or returns a meaningless angle:
\* both outcomes are kept.
pix2ang(nside, idx) ==
    IF idx < nside2npix(nside)
    THEN {[err |-> "none", ret |-> [cell |-> idx, off |-> 0]]}
    ELSE {[err |-> "ValueError", ret |-> <<>>],
          [err |-> "none", ret |-> [cell |-> -1, off |-> 0]]}

-----------------------------------------------------------------------------
(* ff3.FF3Cipher *)

\* encrypt and decrypt check the length of the message, not the constructor.
cipher_accepts(s) == Len(s) >= minLen /\ Len(s) <= maxLen

encrypt(key, tweak, s) ==
    LET n == Len(s)
    IN  zfill(str((key * int(s) + tweak) % pow(10, n)), n)

\* The inverse of encrypt: the x < 10^n with key * x + tweak = int(s) modulo
\* 10^n, found by adding to int(s) - tweak the multiple of 10^n that makes
\* it divisible by the multiplier (the multiplier is coprime to 10).
decrypt(key, tweak, s) ==
    LET n == Len(s)
        m == pow(10, n)
        y == (int(s) + m - (tweak % m)) % m
        t == CHOOSE t \in 0..(key - 1) : (y + t * m) % key = 0
    IN  zfill(str((y + t * m) \div key), n)

-----------------------------------------------------------------------------
(* StarHash *)

\* padding_length with an off-by-one fault: a width one digit short.
padding_length_short(npix) == Len(str(npix)) - 1

\* __init__ line 72.
padding_length(npix) == Len(str(npix))

\* load_wordlist line 99: coverage = pow(num_words, k_words) / npix, kept as
\* the fraction it is the quotient of.
coverage(num_words, k_words, npix) == <<pow(num_words, k_words), npix>>

\* incomplete with a boundary fault: a coverage of exactly 1 is refused too.
incomplete_or_exact(cov) == cov[1] <= cov[2]

\* load_wordlist line 102: coverage < 1.
incomplete(cov) == cov[1] < cov[2]

\* The word lists a file can hold: n distinct words, or the same with its
\* last line repeating its first.
unique_words(n) == [i \in 1..n |-> i]
with_duplicate(n) == [i \in 1..n |-> IF i = n THEN 1 ELSE i]
WordLists ==
    {unique_words(n) : n \in VocabSizes} \cup {with_duplicate(6)}

NoInstance ==
    [key |-> 0, tweak |-> 0, healpix_nside |-> 0, npix |-> 0,
     padding_length |-> 0, wordlist |-> <<>>, num_words |-> 0,
     k_words |-> 0, coverage |-> <<0, 1>>]

\* The fields __init__ and load_wordlist assign.
instance(key, tweak, healpix_nside, wordlist, k_words) ==
    LET npix == nside2npix(healpix_nside)
    IN  [key |-> key, tweak |-> tweak, healpix_nside |-> healpix_nside,
         npix |-> npix, padding_length |-> padding_length(npix),
         wordlist |-> wordlist, num_words |-> Len(wordlist),
         k_words |-> k_words,
         coverage |-> coverage(Len(wordlist), k_words, npix)]

\* The exception __init__ ends with ("none": it returns the instance).
init_error(s) ==
    IF incomplete(s.coverage) THEN "IncompleteHEALPixCoverageError" ELSE "none"

\* coordinate_to_words lines 112-117: repeated modulo and floor division.
RECURSIVE split_words(_, _, _, _)
split_words(wordlist, num_words, temp, count) ==
    IF count = 0 THEN <<>>
    ELSE <<wordlist[(temp % num_words) + 1]>>
             \o split_words(wordlist, num_words, temp \div num_words, count - 1)

\* coordinate_to_words: what the call does, as a record of its outcome.
coordinate_to_words(s, coord) ==
    LET idx == ang2pix(s.healpix_nside, coord)
        stridx == zfill(str(idx), s.padding_length)
    IN  IF ~cipher_accepts(stridx)
        THEN [err |-> "ValueError", ret |-> <<>>, idx_encrypted |-> -1,
              cipher_arg |-> stridx, pix_arg |-> -1]
        ELSE LET e == int(encrypt(s.key, s.tweak, stridx))
             IN  [err |-> "none",
                  ret |-> split_words(s.wordlist, s.num_words, e, s.k_words),
                  idx_encrypted |-> e, cipher_arg |-> stridx, pix_arg |-> -1]

\* words_to_coordinate line 125.
RECURSIVE recompose(_, _, _)
recompose(indices, num_words, i) ==
    IF i > Len(indices) THEN 0
    ELSE indices[i] * pow(num_words, i - 1) + recompose(indices, num_words, i + 1)

\* words_to_coordinate: the outcomes the call can have.
words_to_coordinate(s, input_words) ==
    LET indices == [i \in 1..Len(input_words) |-> index(s.wordlist, input_words[i])]
    IN  IF \E i \in 1..Len(indices) : indices[i] = -1
        THEN {[err |-> "ValueError", ret |-> <<>>, idx_encrypted |-> -1,
               cipher_arg |-> <<>>, pix_arg |-> -1]}
        ELSE
        LET e == recompose(indices, s.num_words, 1)
            stridx_encrypted == zfill(str(e), s.padding_length)
        IN  IF ~cipher_accepts(stridx_encrypted)
            THEN {[err |-> "ValueError", ret |-> <<>>, idx_encrypted |-> e,
                   cipher_arg |-> stridx_encrypted, pix_arg |-> -1]}
            ELSE
            LET idx == int(decrypt(s.key, s.tweak, stridx_encrypted))
            IN  IF idx > s.npix
                THEN {[err |-> "InvalidHEALPixIndexError", ret |-> <<>>,
                       idx_encrypted |-> e, cipher_arg |-> stridx_encrypted,
                       pix_arg |-> -1]}
                ELSE {[err |-> r.err, ret |-> r.ret, idx_encrypted |-> e,
                       cipher_arg |-> stridx_encrypted, pix_arg |-> idx] :
                      r \in pix2ang(s.healpix_nside, idx)}

-----------------------------------------------------------------------------
(* The state machine. *)

Init ==
    /\ pc = "new"
    /\ self = NoInstance
    /\ op = "none"
    /\ arg = <<>>
    /\ err = "none"
    /\ ret = <<>>
    /\ idx_encrypted = -1
    /\ cipher_arg = <<>>
    /\ pix_arg = -1

\* StarHash(key, tweak, healpix_nside, wordlist_path, k_words).
Construct(key, tweak, healpix_nside, wordlist, k_words) ==
    /\ pc = "new"
    /\ self' = instance(key, tweak, healpix_nside, wordlist, k_words)
    /\ err' = init_error(self')
    /\ pc' = IF err' = "none" THEN "ready" ELSE "failed"
    /\ op' = IF err' = "none" THEN "none" ELSE "init"
    /\ arg' = <<>>
    /\ ret' = <<>>
    /\ idx_encrypted' = -1
    /\ cipher_arg' = <<>>
    /\ pix_arg' = -1

\* self.coordinate_to_words(ra, dec) on a constructed instance.
Encode(coord) ==
    /\ pc = "ready"
    /\ LET out == coordinate_to_words(self, coord)
       IN  /\ op' = "encode"
           /\ arg' = coord
           /\ err' = out.err
           /\ ret' = out.ret
           /\ idx_encrypted' = out.idx_encrypted
           /\ cipher_arg' = out.cipher_arg
           /\ pix_arg' = out.pix_arg
    /\ pc' = "called"
    /\ UNCHANGED self

\* Decode with a frame fault: it keeps the number of words it was handed as
\* the instance's word count.
Decode_adapting(input_words) ==
    /\ pc = "ready"
    /\ \E out \in words_to_coordinate(self, input_words) :
           /\ op' = "decode"
           /\ arg' = input_words
           /\ err' = out.err
           /\ ret' = out.ret
           /\ idx_encrypted' = out.idx_encrypted
           /\ cipher_arg' = out.cipher_arg
           /\ pix_arg' = out.pix_arg
    /\ pc' = "called"
    /\ self' = [self EXCEPT !.k_words = Len(input_words)]

\* self.words_to_coordinate(input_word_str) on a constructed instance.
Decode(input_words) ==
    /\ pc = "ready"
    /\ \E out \in words_to_coordinate(self, input_words) :
           /\ op' = "decode"
           /\ arg' = input_words
           /\ err' = out.err
           /\ ret' = out.ret
           /\ idx_encrypted' = out.idx_encrypted
           /\ cipher_arg' = out.cipher_arg
           /\ pix_arg' = out.pix_arg
    /\ pc' = "called"
    /\ UNCHANGED self

\* The caller takes the result or the exception of the call that ended: the
\* instance is idle again, ready for the next call.
Return ==
    /\ pc = "called"
    /\ pc' = "ready"
    /\ op' = "none"
    /\ arg' = <<>>
    /\ err' = "none"
    /\ ret' = <<>>
    /\ idx_encrypted' = -1
    /\ cipher_arg' = <<>>
    /\ pix_arg' = -1
    /\ UNCHANGED self

\* The coordinates of the grid.
Coordinates == [cell : 0..(self.npix - 1), off : Offsets]

\* The identifiers handed to decode: those of 1..MaxWords words of the word
\* list that spell an integer up to MaxE, and those with a word the list does
\* not hold at one place.
spelled(e, count) ==
    [j \in 1..count |->
        self.wordlist[((e \div pow(self.num_words, j - 1)) % self.num_words) + 1]]
InputWords ==
    UNION {{spelled(e, count) :
                e \in {x \in 0..MaxE : x < pow(self.num_words, count)}} :
           count \in 1..MaxWords}
    \cup {[j \in 1..count |-> IF j = p THEN UnknownWord ELSE self.wordlist[1]] :
             count \in 1..MaxWords, p \in 1..MaxWords}

Next ==
    \/ \E key \in Keys, tweak \in Tweaks, nside \in 1..MaxNside,
          wordlist \in WordLists, k \in 0..MaxK :
           Construct(key, tweak, nside, wordlist, k)
    \/ pc = "ready" /\ \E coord \in Coordinates : Encode(coord)
    \/ pc = "ready" /\ \E input_words \in InputWords : Decode(input_words)
    \/ Return

Spec == Init /\ [][Next]_vars

-----------------------------------------------------------------------------
(* What a state shows of the last call. *)

Constructed == pc \in {"ready", "called"}
Encoded == pc = "called" /\ op = "encode"
Decoded == pc = "called" /\ op = "decode"
Vocabulary == {self.wordlist[i] : i \in 1..Len(self.wordlist)}

\* The instance a fresh construction with the same arguments yields.
fresh(s) == instance(s.key, s.tweak, s.healpix_nside, s.wordlist, s.k_words)

\* The results a call o(a) on instance s can have.
results(s, o, a) ==
    IF o = "encode"
    THEN {[err |-> coordinate_to_words(s, a).err, ret |-> coordinate_to_words(s, a).ret]}
    ELSE {[err |-> r.err, ret |-> r.ret] : r \in words_to_coordinate(s, a)}

-----------------------------------------------------------------------------
(* The claims. *)

\* C1 (as claimed): on a constructed codec, decoding the identifier that
\* encode returned for a coordinate in cell i succeeds and returns the
\* representative point (the centre) of cell i.
C1_RoundTrip ==
    (Encoded /\ err = "none") =>
        \A out \in words_to_coordinate(self, ret) :
            out.err = "none" /\ out.ret = [cell |-> arg.cell, off |-> 0]

\* Where the round trip does hold: the words are distinct and N^k covers the
\* 10^W strings the cipher ranges over, not only the P cells.
RoundTripWhenLossless ==
    (/\ Encoded /\ err = "none"
     /\ Cardinality(Vocabulary) = self.num_words
     /\ pow(self.num_words, self.k_words) >= pow(10, self.padding_length)) =>
        \A out \in words_to_coordinate(self, ret) :
            out.err = "none" /\ out.ret = [cell |-> arg.cell, off |-> 0]

\* C2 (as claimed): on a constructed codec no other valid cell is encoded to
\* the identifier that encode returned for this cell.
C2_Bijective ==
    (Encoded /\ err = "none") =>
        \A j \in 0..(self.npix - 1) :
            j # arg.cell =>
                coordinate_to_words(self, [cell |-> j, off |-> 0]).ret # ret

\* C3: a construction with N^k < P ends with IncompleteHEALPixCoverageError
\* and yields no instance (nothing can be called), and a construction with
\* N^k >= P does not end with that error: it yields the instance.
C3_ConstructionFailure ==
    pc # "new" =>
        LET covered == pow(Len(self.wordlist), self.k_words) >= self.npix
        IN  /\ ~covered =>
                /\ pc = "failed"
                /\ err = "IncompleteHEALPixCoverageError"
                /\ ~ENABLED Next
            /\ covered => Constructed

\* C3's case: a word list of ten words and two words per identifier, 100
\* identifiers for 108 cells, is refused.
C3_Witness ==
    /\ pc = "failed"
    /\ err = "IncompleteHEALPixCoverageError"
    /\ Len(self.wordlist) = 10 /\ self.k_words = 2 /\ self.npix = 108

\* C4 (as claimed): when decode decrypts to an index i >= P (i = P included)
\* it raises InvalidHEALPixIndexError and hands no index to pix2ang.  The
\* identifiers are those whose integer fits the padding width, which keeps
\* the case apart from that of C6.
C4_InvalidIndex ==
    (/\ Decoded
     /\ Len(cipher_arg) = self.padding_length
     /\ cipher_accepts(cipher_arg)) =>
        (int(decrypt(self.key, self.tweak, cipher_arg)) >= self.npix =>
            err = "InvalidHEALPixIndexError" /\ pix_arg = -1)

\* C5 (as claimed): decoding an identifier with a word that the vocabulary
\* does not hold raises the dedicated unknown-word error and returns nothing.
C5_UnknownWord ==
    (Decoded /\ \E i \in 1..Len(arg) : arg[i] \notin Vocabulary) =>
        err = "UnknownWordError" /\ ret = <<>>

\* C6 (as claimed): when the recomposed integer e is at least 10^W decode
\* raises the malformed-identifier error without calling decrypt, and decrypt
\* is only ever handed strings of exactly W digits.
C6_MalformedIdentifier ==
    Decoded =>
        /\ idx_encrypted >= pow(10, self.padding_length) =>
               err = "MalformedIdentifierError" /\ cipher_arg = <<>>
        /\ cipher_arg # <<>> => Len(cipher_arg) = self.padding_length

\* C7 (as claimed): a constructed codec has a padding width the transform
\* accepts, and no call on it fails because the string handed to the
\* transform is shorter than the transform's minimum length.
C7_TransformDomain ==
    Constructed =>
        /\ self.padding_length >= minLen
        /\ ~(err = "ValueError" /\ cipher_arg # <<>> /\ Len(cipher_arg) < minLen)

\* C8: a call on a constructed codec, whether it returns or raises, leaves
\* every field of the instance as it was, and its result is one that the
\* same call has on a freshly constructed codec.
C8_StateFrame ==
    [][Constructed =>
          /\ self' = self
          /\ pc' = "called" =>
                 [err |-> err', ret |-> ret'] \in results(fresh(self), op', arg')]_vars

\* C8's case: a decode has failed and the instance is as it was constructed.
C8_Witness ==
    /\ Decoded
    /\ err = "InvalidHEALPixIndexError"
    /\ self = fresh(self)

\* C9 (as claimed): the encrypted integer e of an encode is below N^k, the
\* identifier has exactly k vocabulary words, and the positional sum of
\* their indices is e.
C9_LosslessDigits ==
    (Encoded /\ err = "none") =>
        /\ idx_encrypted < pow(self.num_words, self.k_words)
        /\ Len(ret) = self.k_words
        /\ \A j \in 1..Len(ret) : ret[j] \in Vocabulary
        /\ recompose([j \in 1..Len(ret) |-> index(self.wordlist, ret[j])],
                     self.num_words, 1) = idx_encrypted

\* C10: the padding width is the number of decimal digits of P - 1, and
\* encode hands the cipher the cell index written in exactly that many
\* digits.
C10_PaddingWidth ==
    /\ pc # "new" => self.padding_length = Len(str(self.npix - 1))
    /\ Encoded =>
           /\ Len(cipher_arg) = self.padding_length
           /\ int(cipher_arg) = arg.cell

\* C10's case: cell 42 of the 108-cell grid is written "042".
C10_Witness ==
    /\ Encoded
    /\ self.npix = 108
    /\ arg.cell = 42
    /\ cipher_arg = <<0, 4, 2>>

=============================================================================
